---- MODULE Spec2Model ----
(***************************************************************************)
(* Model of scripts/update_changelog.py: the release automation that       *)
(* fetches the pull requests merged yesterday, groups them by change type, *)
(* renders a markdown fragment, writes it into CHANGELOG.md, bumps the     *)
(* version in setup.py, commits, tags, pushes and creates a GitHub         *)
(* release.                                                                *)
(*                                                                         *)
(* Text files are sequences of tokens.  A token is a record [k, v]: k is   *)
(* the kind of text and v an integer payload.  The tokens that matter to   *)
(* the code are the sentinel marker, the newline and the text              *)
(* `version = "X.Y.Z"`; all other text is opaque.                          *)
(***************************************************************************)
EXTENDS Integers, Sequences, FiniteSets, TLC

\* ------------------------------------------------------------------ bounds
MaxRuns == 2        \* invocations of the script in one behaviour of Spec
MaxPage == 2        \* pull requests on one page of API results (SpecFetch)

\* ------------------------------------------------------------------ tokens
Marker    == [k |-> "marker", v |-> 0]      \* <!-- GENERATOR_PLACEHOLDER -->
EscMarker == [k |-> "escmarker", v |-> 0]   \* &lt;!-- GENERATOR_PLACEHOLDER --&gt;
NL        == [k |-> "nl", v |-> 0]          \* "\n"
Txt(n)    == [k |-> "text", v |-> n]        \* opaque text without < > or \n
Ver(r)    == [k |-> "version", v |-> r]     \* version = "<r>", r matches \d+\.\d+\.\d+
DateTok(d) == [k |-> "date", v |-> d]       \* {{ merge_date }}
Heading(c) == [k |-> "heading", v |-> c]    \* heading of the c-th change type
Ref(n)    == [k |-> "ref", v |-> n]         \* reference to pull request #n

\* ----------------------------------------------------------- module level
\* Dates are days of March 2024; dt.timedelta(days=1) is one day.
NoDate == 0 - 1                             \* merged_at of an unmerged pull request
NoRepo == "None"
RepoName == "owner/name"
CHANGELOG_MD == "CHANGELOG.md"
SETUP_PY == "setup.py"

Yesterday(today) == today - 1

\* f"{MERGED_DATE:%Y.%m.%d}": the digits of year, month and day.
FormatRelease(d) == (2024 * 10000) + (3 * 100) + d

ChangeTypes == <<"Changed", "Fixed", "Updated">>

\* ------------------------------------------------------------ sequences
RECURSIVE Concat(_)
Concat(ss) == IF ss = <<>> THEN <<>> ELSE Head(ss) \o Concat(Tail(ss))

Count(t, s) == Cardinality({i \in 1..Len(s) : s[i] = t})

Range(s) == {s[i] : i \in 1..Len(s)}

\* -------------------------------------------------------------- iter_pulls
\* Faulty variant: every page is read instead of the first one.
GetAllPages(remote) == remote[1] \o remote[2]

\* repo.get_pulls(state="closed", sort="updated", direction="desc").get_page(0)
GetPage0(remote) == remote[1]

RECURSIVE FilterMerged(_, _)
FilterMerged(pulls, date) ==
    IF pulls = <<>> THEN <<>>
    ELSE LET pull == Head(pulls)
             rest == FilterMerged(Tail(pulls), date)
         IN  IF pull.merged /\ pull.merged_at = date
             THEN <<pull>> \o rest
             ELSE rest

iter_pulls(remote, date) == FilterMerged(GetPage0(remote), date)

\* ---------------------------------------------- group_pulls_by_change_type
\* Faulty variant: "bug" is tested before "update".
GroupNameBugFirst(label_names) ==
    IF "bug" \in label_names THEN "Fixed"
    ELSE IF "update" \in label_names THEN "Updated"
    ELSE "Changed"

GroupName(label_names) ==
    IF "update" \in label_names THEN "Updated"
    ELSE IF "bug" \in label_names THEN "Fixed"
    ELSE "Changed"

EmptyGroups == [g \in {"Changed", "Fixed", "Updated"} |-> <<>>]

RECURSIVE GroupLoop(_, _)
GroupLoop(grouped, pulls) ==
    IF pulls = <<>> THEN grouped
    ELSE LET pull == Head(pulls)
             group_name == GroupName(pull.labels)
         IN  GroupLoop([grouped EXCEPT ![group_name] = Append(@, pull)],
                       Tail(pulls))

\* Faulty variant: a pull request is inserted at the front of its group.
RECURSIVE GroupLoopPrepend(_, _)
GroupLoopPrepend(grouped, pulls) ==
    IF pulls = <<>> THEN grouped
    ELSE LET pull == Head(pulls)
             group_name == GroupName(pull.labels)
         IN  GroupLoopPrepend([grouped EXCEPT ![group_name] = <<pull>> \o @],
                              Tail(pulls))

group_pulls_prepend(pull_requests_list) ==
    GroupLoopPrepend(EmptyGroups, pull_requests_list)

group_pulls_by_change_type(pull_requests_list) ==
    GroupLoop(EmptyGroups, pull_requests_list)

\* ------------------------------------------------------------- generate_md
\* autoescape=True: < and > of an interpolated value become &lt; and &gt;.
EscapeTok(t) == IF t = Marker THEN EscMarker ELSE t

Escape(s) == [i \in 1..Len(s) |-> EscapeTok(s[i])]

RECURSIVE RenderPulls(_)
RenderPulls(pulls) ==
    IF pulls = <<>> THEN <<>>
    ELSE Escape(Head(pulls).title) \o <<Ref(Head(pulls).id), NL>>
         \o RenderPulls(Tail(pulls))

\* .github/changelog-template.md: the date, then the three change types in
\* their fixed order, each followed by its pull requests.
RenderTemplate(merge_date, grouped) ==
    <<DateTok(merge_date), NL>>
    \o Concat([c \in 1..3 |->
                 <<Heading(c), NL>> \o RenderPulls(grouped[ChangeTypes[c]])])

generate_md(grouped, merge_date) == RenderTemplate(merge_date, grouped)

\* --------------------------------------------------------- write_changelog
\* str.replace(old, new): every occurrence of old, left to right.
RECURSIVE StrReplace(_, _, _)
StrReplace(s, old, new) ==
    IF s = <<>> THEN <<>>
    ELSE IF Head(s) = old THEN new \o StrReplace(Tail(s), old, new)
    ELSE <<Head(s)>> \o StrReplace(Tail(s), old, new)

\* Faulty variant: the replacement text leaves the marker out.
write_changelog_drop_marker(old_content, content) ==
    StrReplace(old_content, Marker, <<NL, NL>> \o content)

write_changelog(old_content, content) ==
    StrReplace(old_content, Marker, <<Marker, NL, NL>> \o content)

\* ---------------------------------------------------------- update_version
\* The pattern \nversion = "\d+\.\d+\.\d+"\n at the head of s.
MatchesVersionLine(s) ==
    /\ Len(s) >= 3
    /\ s[1] = NL
    /\ s[2].k = "version"
    /\ s[3] = NL

\* re.sub(pattern, repl, s): every non-overlapping match, left to right.
RECURSIVE ReSub(_, _)
ReSub(repl, s) ==
    IF s = <<>> THEN <<>>
    ELSE IF MatchesVersionLine(s)
         THEN repl \o ReSub(repl, SubSeq(s, 4, Len(s)))
         ELSE <<Head(s)>> \o ReSub(repl, Tail(s))

update_version(old_content, release) == ReSub(<<Ver(release)>>, old_content)


\* ------------------------------------------------------------------- state
VARIABLES
    pc,             \* position of the running script ("idle": not started)
    runs,           \* invocations so far
    today,          \* dt.date.today() of the current invocation
    GITHUB_REPO,    \* os.getenv("GITHUB_REPOSITORY", None)
    MERGED_DATE,    \* today - 1 day
    RELEASE,        \* MERGED_DATE formatted %Y.%m.%d
    remote,         \* the pages of closed pull requests the API returned
    merged_pulls,   \* list(iter_pulls(repo))
    grouped_pulls,  \* group_pulls_by_change_type(merged_pulls)
    release_changes_summary,    \* generate_md(grouped_pulls)
    changelog,      \* content of CHANGELOG.md
    setup_py,       \* content of setup.py
    index,          \* paths staged in the git index
    commits,        \* commits of the local branch, oldest first
    tags,           \* annotated tags of the local repository
    pushed,         \* number of local commits present on the remote branch
    remote_tags,    \* tags present on the remote
    releases,       \* GitHub releases
    log,            \* external operations completed by this invocation
    raised,         \* position at which this invocation raised ("" if none)
    start,          \* files, git and remote as they were when this invocation began
    written,        \* fragments written to the changelog so far, newest first
    original        \* content of CHANGELOG.md before the first invocation

perRun == <<remote, merged_pulls, grouped_pulls, release_changes_summary>>
files == <<changelog, setup_py>>
gitState == <<index, commits, tags, pushed, remote_tags, releases>>
config == <<runs, today, GITHUB_REPO, MERGED_DATE, RELEASE>>
vars == <<pc, config, perRun, files, gitState, log, raised, start, written,
          original>>

\* Everything a run can leave behind.
Effects == [changelog |-> changelog, setup_py |-> setup_py, index |-> index,
            commits |-> commits, tags |-> tags, pushed |-> pushed,
            remote_tags |-> remote_tags, releases |-> releases]

\* ------------------------------------------------------------------ inputs
Pull(id, labels, merged_at, title) ==
    [id |-> id, merged |-> merged_at # NoDate, merged_at |-> merged_at,
     labels |-> labels, title |-> title]

LabelNames == {"update", "bug", "docs"}

\* The pull requests one page of SpecFetch can hold at position i.
FetchPulls(id, date) ==
    {Pull(id, ls, at, <<Txt(id)>>) :
        ls \in SUBSET LabelNames, at \in {NoDate, date, date - 1}}

\* Numbering of the pull requests of a page: ascending or descending.
Numberings(n) == {[i \in 1..n |-> i], [i \in 1..n |-> n + 1 - i]}

FirstPages(date) ==
    UNION {UNION {{p \in [1..n -> UNION {FetchPulls(nb[i], date) : i \in 1..n}] :
                      \A i \in 1..n : p[i].id = nb[i]} :
                  nb \in Numberings(n)} :
           n \in 0..MaxPage}

\* A pull request merged on the target date that is not on the first page.
Beyond(date) == Pull(MaxPage + 1, {}, date, <<Txt(MaxPage + 1)>>)

FetchRemotes(date) ==
    {<<p, q>> : p \in FirstPages(date), q \in {<<>>, <<Beyond(date)>>}}

\* The API results of the multi-run specification: nothing closed, nothing
\* merged on the date, the example of two pull requests (bug, unlabelled),
\* and a page whose titles and labels exercise escaping and priority.
RunRemotes(date) ==
    {<< <<>>, <<>> >>,
     << <<Pull(1, {"bug"}, date - 1, <<Txt(1)>>), Pull(2, {}, NoDate, <<Txt(2)>>)>>,
        <<Beyond(date)>> >>,
     << <<Pull(1, {"bug"}, date, <<Txt(1)>>), Pull(2, {}, date, <<Txt(2)>>)>>, <<>> >>,
     << <<Pull(2, {"update", "bug"}, date, <<Txt(2), Marker>>),
          Pull(1, {"docs"}, date, <<Txt(1)>>)>>, <<>> >>}

Changelogs ==
    {<<Txt(0), NL, Marker, NL, DateTok(0), NL>>,
     <<Marker>>,
     <<Marker, NL, Txt(0), NL, Marker, NL>>}

SetupFiles ==
    {<<Txt(1), NL, Ver(0), NL, Txt(2), NL>>,
     <<Txt(1), NL, NL, Ver(0), NL, NL, Txt(2), NL>>}

\* -------------------------------------------------------------------- Init
Init ==
    /\ pc = "idle"
    /\ runs = 0
    /\ today = 1
    /\ GITHUB_REPO = NoRepo
    /\ MERGED_DATE = Yesterday(1)
    /\ RELEASE = FormatRelease(Yesterday(1))
    /\ remote = << <<>>, <<>> >>
    /\ merged_pulls = <<>>
    /\ grouped_pulls = EmptyGroups
    /\ release_changes_summary = <<>>
    /\ changelog \in Changelogs
    /\ setup_py \in SetupFiles
    /\ index = {}
    /\ commits = <<>>
    /\ tags = {}
    /\ pushed = 0
    /\ remote_tags = {}
    /\ releases = {}
    /\ log = <<>>
    /\ raised = ""
    /\ start = Effects
    /\ written = <<>>
    /\ original = changelog

\* ----------------------------------------------------------------- actions
\* A new process, started on the day after the previous one (the job is
\* scheduled daily): the module-level statements (lines 13-21).
Import(limit) ==
    /\ pc \in {"idle", "done", "failed", "aborted"}
    /\ runs < limit
    /\ runs' = runs + 1
    /\ today' = today + 1
    /\ GITHUB_REPO' \in {NoRepo, RepoName}
    /\ MERGED_DATE' = Yesterday(today')
    /\ RELEASE' = FormatRelease(MERGED_DATE')
    /\ remote' = << <<>>, <<>> >>
    /\ merged_pulls' = <<>>
    /\ grouped_pulls' = EmptyGroups
    /\ release_changes_summary' = <<>>
    /\ log' = <<>>
    /\ raised' = ""
    /\ start' = Effects
    /\ pc' = "main_guard"
    /\ UNCHANGED <<files, gitState, written, original>>

\* Faulty variant: main is called without the check of GITHUB_REPO.
MainGuardUnchecked ==
    /\ pc = "main_guard"
    /\ pc' = "get_repo"
    /\ UNCHANGED <<config, perRun, files, gitState, log, raised, start, written,
                   original>>

\* if __name__ == "__main__": raise RuntimeError unless GITHUB_REPO is set.
MainGuard ==
    /\ pc = "main_guard"
    /\ pc' = IF GITHUB_REPO = NoRepo THEN "aborted" ELSE "get_repo"
    /\ UNCHANGED <<config, perRun, files, gitState, log, raised, start, written, original>>

\* repo = Github(login_or_token=GITHUB_TOKEN).get_repo(GITHUB_REPO)
GetRepo ==
    /\ pc = "get_repo"
    /\ log' = Append(log, "get_repo")
    /\ pc' = "iter_pulls"
    /\ UNCHANGED <<config, perRun, files, gitState, raised, start, written, original>>

\* Faulty variant: no early return.
AfterFetchNoReturn(pulls) == "group"

\* Where main goes after the fetch: `if not merged_pulls: return`.
AfterFetch(pulls) == IF pulls = <<>> THEN "done" ELSE "group"

\* merged_pulls = list(iter_pulls(repo)) and the early return.
IterPulls(remotes) ==
    /\ pc = "iter_pulls"
    /\ \E r \in remotes :
         /\ remote' = r
         /\ merged_pulls' = iter_pulls(r, MERGED_DATE)
    /\ log' = Append(log, "get_pulls")
    /\ pc' = AfterFetch(merged_pulls')
    /\ UNCHANGED <<config, grouped_pulls, release_changes_summary, files,
                   gitState, raised, start, written, original>>

Group ==
    /\ pc = "group"
    /\ grouped_pulls' = group_pulls_by_change_type(merged_pulls)
    /\ pc' = "generate_md"
    /\ UNCHANGED <<config, remote, merged_pulls, release_changes_summary, files,
                   gitState, log, raised, start, written, original>>

GenerateMd ==
    /\ pc = "generate_md"
    /\ release_changes_summary' = generate_md(grouped_pulls, MERGED_DATE)
    /\ pc' = "write_changelog"
    /\ UNCHANGED <<config, remote, merged_pulls, grouped_pulls, files,
                   gitState, log, raised, start, written, original>>

WriteChangelog ==
    /\ pc = "write_changelog"
    /\ changelog' = write_changelog(changelog, release_changes_summary)
    /\ written' = <<release_changes_summary>> \o written
    /\ log' = Append(log, "write_changelog")
    /\ pc' = "update_version"
    /\ UNCHANGED <<config, perRun, setup_py, gitState, raised, start, original>>

\* update_git_repo([changelog_path, setup_py_path], RELEASE)
Paths == <<CHANGELOG_MD, SETUP_PY>>

\* Positions of the iterations of `for path in paths`.
AddPos == <<"git_add_1", "git_add_2">>

\* What the log records for repo.git.add of each path.
AddOps == <<"add_changelog", "add_setup_py">>

UpdateVersion ==
    /\ pc = "update_version"
    /\ setup_py' = update_version(setup_py, RELEASE)
    /\ log' = Append(log, "update_version")
    /\ pc' = AddPos[1]
    /\ UNCHANGED <<config, perRun, changelog, gitState, raised, start, written, original>>

\* for path in paths: repo.git.add(path) -- one iteration.
GitAdd ==
    /\ \E i \in 1..Len(Paths) :
         /\ pc = AddPos[i]
         /\ index' = index \cup {Paths[i]}
         /\ pc' = IF i = Len(Paths) THEN "git_commit" ELSE AddPos[i + 1]
         /\ log' = Append(log, AddOps[i])
    /\ UNCHANGED <<config, perRun, files, commits, tags, pushed, remote_tags,
                   releases, raised, start, written, original>>

\* Faulty variant: the commit does not wait for the files to be staged.
GitCommitUnstaged ==
    /\ pc \in {AddPos[1], "git_commit"}
    /\ commits' = Append(commits, [m |-> RELEASE, paths |-> index])
    /\ index' = {}
    /\ log' = Append(log, "commit")
    /\ pc' = "git_tag"
    /\ UNCHANGED <<config, perRun, files, tags, pushed, remote_tags, releases,
                   raised, start, written, original>>

GitCommit ==
    /\ pc = "git_commit"
    /\ commits' = Append(commits, [m |-> RELEASE, paths |-> index])
    /\ index' = {}
    /\ log' = Append(log, "commit")
    /\ pc' = "git_tag"
    /\ UNCHANGED <<config, perRun, files, tags, pushed, remote_tags, releases,
                   raised, start, written, original>>

GitTag ==
    /\ pc = "git_tag"
    /\ tags' = tags \cup {RELEASE}
    /\ log' = Append(log, "tag")
    /\ pc' = "git_push"
    /\ UNCHANGED <<config, perRun, files, index, commits, pushed, remote_tags,
                   releases, raised, start, written, original>>

\* repo.git.push(server, DEFAULT_BRANCH)
GitPush ==
    /\ pc = "git_push"
    /\ pushed' = Len(commits)
    /\ log' = Append(log, "push_branch")
    /\ pc' = "git_push_tags"
    /\ UNCHANGED <<config, perRun, files, index, commits, tags, remote_tags,
                   releases, raised, start, written, original>>

\* repo.git.push("--tags", server, DEFAULT_BRANCH)
GitPushTags ==
    /\ pc = "git_push_tags"
    /\ remote_tags' = remote_tags \cup tags
    /\ pushed' = Len(commits)
    /\ log' = Append(log, "push_tags")
    /\ pc' = "create_release"
    /\ UNCHANGED <<config, perRun, files, index, commits, tags, releases,
                   raised, start, written, original>>

\* repo.create_git_release(tag=RELEASE, name=RELEASE, message=summary)
CreateRelease ==
    /\ pc = "create_release"
    /\ releases' = releases \cup
          {[tag |-> RELEASE, name |-> RELEASE, message |-> release_changes_summary]}
    /\ log' = Append(log, "create_release")
    /\ pc' = "done"
    /\ UNCHANGED <<config, perRun, files, index, commits, tags, pushed,
                   remote_tags, raised, start, written, original>>

\* Positions whose statement calls the API, the filesystem or git.
RaisePoints == {"get_repo", "iter_pulls", "generate_md", "write_changelog",
                "update_version", "git_add_1", "git_add_2", "git_commit", "git_tag",
                "git_push", "git_push_tags", "create_release"}

\* Faulty variant: a handler restores the changelog before the process ends.
RaiseWithCleanup ==
    /\ pc \in RaisePoints
    /\ raised' = pc
    /\ pc' = "failed"
    /\ changelog' = start.changelog
    /\ UNCHANGED <<config, perRun, setup_py, gitState, log, start, written,
                   original>>

\* The statement at pc raises; nothing catches it and the process ends.
Raise ==
    /\ pc \in RaisePoints
    /\ raised' = pc
    /\ pc' = "failed"
    /\ UNCHANGED <<config, perRun, files, gitState, log, start, written, original>>

Publish ==
    \/ WriteChangelog
    \/ UpdateVersion
    \/ GitAdd
    \/ GitCommit
    \/ GitTag
    \/ GitPush
    \/ GitPushTags
    \/ CreateRelease

\* Repeated invocations on successive days.
Next ==
    \/ Import(MaxRuns)
    \/ MainGuard
    \/ GetRepo
    \/ IterPulls(RunRemotes(MERGED_DATE))
    \/ Group
    \/ GenerateMd
    \/ Publish
    \/ Raise

Spec == Init /\ [][Next]_vars

\* One invocation over every first page of up to MaxPage pull requests.
NextFetch ==
    \/ Import(1)
    \/ MainGuard
    \/ GetRepo
    \/ IterPulls(FetchRemotes(MERGED_DATE))
    \/ Group
    \/ GenerateMd
    \/ Publish
    \/ Raise

InitFetch ==
    /\ Init
    /\ changelog = <<Txt(0), NL, Marker, NL, DateTok(0), NL>>
    /\ setup_py = <<Txt(1), NL, Ver(0), NL, Txt(2), NL>>

SpecFetch == InitFetch /\ [][NextFetch]_vars

\* ================================================================ claims
Did(op) == op \in Range(log)

\* The position of pull request p in the sequence s (0 if absent).
PosIn(p, s) == IF p \in Range(s) THEN CHOOSE i \in 1..Len(s) : s[i] = p ELSE 0

Fetched == Did("get_pulls")
Grouped == grouped_pulls # EmptyGroups

\* C4: when no pull request was merged on the target date, main ends
\* normally right after the fetch: the changelog, the version file, the git
\* repository, the remote and the releases are as they were when the run
\* began, and the run made no call other than the two fetching ones.
C4_NothingMergedNoChange ==
    (Fetched /\ merged_pulls = <<>>) =>
        /\ pc = "done"
        /\ raised = ""
        /\ Effects = start
        /\ log = <<"get_repo", "get_pulls">>
        /\ release_changes_summary = <<>>

C4_Witness ==
    /\ Fetched
    /\ merged_pulls = <<>>
    /\ remote[1] # <<>>
    /\ pc = "done"
    /\ start.commits # <<>>

\* C5: every grouped pull request sits in the category its labels select:
\* "Updated" when "update" is among them (also next to "bug"), else "Fixed"
\* when "bug" is among them, else "Changed".
C5_ClassificationPriority ==
    Grouped =>
        \A i \in 1..Len(merged_pulls) :
            LET p == merged_pulls[i]
                expected == IF "update" \in p.labels THEN "Updated"
                            ELSE IF "bug" \in p.labels THEN "Fixed"
                            ELSE "Changed"
            IN  \A g \in DOMAIN grouped_pulls :
                    (p \in Range(grouped_pulls[g])) <=> (g = expected)

C5_Witness ==
    /\ Grouped
    /\ \E i \in 1..Len(merged_pulls) :
         /\ {"update", "bug"} \subseteq merged_pulls[i].labels
         /\ merged_pulls[i] \in Range(grouped_pulls["Updated"])
    /\ \E i \in 1..Len(merged_pulls) :
         /\ merged_pulls[i].labels = {"bug", "docs"}
         /\ merged_pulls[i] \in Range(grouped_pulls["Fixed"])

\* C6: the grouping always has exactly the keys Changed, Fixed and Updated;
\* once computed, every fetched pull request occurs exactly once in the
\* three sequences together, nothing else occurs in them, and each sequence
\* keeps the order of the fetched list.
C6_GroupingPartition ==
    /\ DOMAIN grouped_pulls = {"Changed", "Fixed", "Updated"}
    /\ Grouped =>
        /\ \A i \in 1..Len(merged_pulls) :
              Count(merged_pulls[i], grouped_pulls["Changed"])
              + Count(merged_pulls[i], grouped_pulls["Fixed"])
              + Count(merged_pulls[i], grouped_pulls["Updated"]) = 1
        /\ \A g \in DOMAIN grouped_pulls :
              /\ Range(grouped_pulls[g]) \subseteq Range(merged_pulls)
              /\ \A i, j \in 1..Len(grouped_pulls[g]) :
                    i < j => PosIn(grouped_pulls[g][i], merged_pulls)
                             < PosIn(grouped_pulls[g][j], merged_pulls)

C6_Witness ==
    /\ Grouped
    /\ Len(grouped_pulls["Changed"]) = 2
    /\ grouped_pulls["Changed"][1].id > grouped_pulls["Changed"][2].id
    /\ grouped_pulls["Fixed"] = <<>>
    /\ grouped_pulls["Updated"] = <<>>

\* C10: the fetched list holds exactly the pull requests of the first page
\* that are merged and whose merge date is the day before today, each once
\* and in the order of the page; nothing of a later page is in it, and the
\* fetch leaves files, git and remote untouched.
C10_FetchFirstPageMergedOnDate ==
    Fetched =>
        /\ MERGED_DATE = today - 1
        /\ \A i \in 1..Len(merged_pulls) :
              /\ merged_pulls[i] \in Range(remote[1])
              /\ merged_pulls[i].merged
              /\ merged_pulls[i].merged_at = MERGED_DATE
        /\ \A i \in 1..Len(remote[1]) :
              (remote[1][i].merged /\ remote[1][i].merged_at = MERGED_DATE)
                  => Count(remote[1][i], merged_pulls) = 1
        /\ \A i, j \in 1..Len(merged_pulls) :
              i < j => PosIn(merged_pulls[i], remote[1]) < PosIn(merged_pulls[j], remote[1])
        /\ log[Len(log)] = "get_pulls" => Effects = start

C10_Witness ==
    /\ Fetched
    /\ Len(remote[1]) = 2
    /\ Len(merged_pulls) = 1
    /\ remote[2] # <<>>
    /\ \E i \in 1..2 : ~remote[1][i].merged
    /\ pc = "group"

\* The first position of the marker in s.
MarkerAt(s) == CHOOSE i \in 1..Len(s) : s[i] = Marker /\ \A j \in 1..(i - 1) : s[j] # Marker

\* s with new placed right after position i.
InsertAfter(s, i, new) == SubSeq(s, 1, i) \o new \o SubSeq(s, i + 1, Len(s))

\* The fragments ws, newest first, each behind a blank line.
Sections(ws) == Concat([j \in 1..Len(ws) |-> <<NL, NL>> \o ws[j]])

\* C1 as stated: whenever the changelog contains the marker, after
\* write_changelog the marker occurs exactly once, the new fragment follows
\* it and the rest of the previous content follows the fragment unchanged.
C1_AnyFileWithMarker ==
    (Did("write_changelog") /\ Marker \in Range(start.changelog)) =>
        /\ Count(Marker, changelog) = 1
        /\ changelog = InsertAfter(start.changelog, MarkerAt(start.changelog),
                                   <<NL, NL>> \o release_changes_summary)

\* C1 amended: when the changelog contained the marker exactly once before
\* the first run, then after every write it contains the marker exactly
\* once, followed by a blank line and the fragments written so far, newest
\* first, each behind a blank line, with the text that was before and after
\* the marker around them unchanged; the latest write only inserted its
\* fragment behind the marker.
C1_SingleMarkerPrepend ==
    Count(Marker, original) = 1 =>
        LET i == MarkerAt(original)
        IN  /\ Count(Marker, changelog) = 1
            /\ changelog = InsertAfter(original, i, Sections(written))
            /\ Did("write_changelog") =>
                  /\ written # <<>>
                  /\ written[1] = release_changes_summary
                  /\ changelog = InsertAfter(start.changelog, i,
                                             <<NL, NL>> \o release_changes_summary)

C1_Witness ==
    /\ Count(Marker, original) = 1
    /\ original[1] # Marker
    /\ Len(written) = 2
    /\ Did("write_changelog")
    /\ EscMarker \in Range(written[1])
    /\ written[1] # written[2]

\* Position i of s holds a line that is exactly a version assignment.
IsVersionLine(s, i) ==
    /\ 1 < i
    /\ i < Len(s)
    /\ s[i].k = "version"
    /\ s[i - 1] = NL
    /\ s[i + 1] = NL

VersionLines(s) == {i \in 1..Len(s) : IsVersionLine(s, i)}

\* C2: update_version changes the version line to the release identifier
\* and nothing else: the file keeps its length and every other position,
\* the newlines around the version line included, holds what it held.
C2_OnlyVersionLineReplaced ==
    Did("update_version") =>
        /\ Len(setup_py) = Len(start.setup_py)
        /\ \A i \in 1..Len(setup_py) :
              setup_py[i] = IF IsVersionLine(start.setup_py, i)
                            THEN Ver(RELEASE)
                            ELSE start.setup_py[i]

\* C3: the version file always has exactly one version line, and once a run
\* has updated it that line carries the run's release identifier.
C3_OneVersionLineAcrossRuns ==
    /\ Cardinality(VersionLines(setup_py)) = 1
    /\ Did("update_version") =>
          \A i \in VersionLines(setup_py) : setup_py[i] = Ver(RELEASE)

ApiOps == {"get_repo", "get_pulls"}

IsPublishOp(op) == op \notin ApiOps

PublishOrder == <<"write_changelog", "update_version", "add_changelog",
                  "add_setup_py", "commit", "tag", "push_branch", "push_tags",
                  "create_release">>

IsPrefix(s, t) == Len(s) <= Len(t) /\ s = SubSeq(t, 1, Len(s))

\* C7: the publishing operations of a run are an initial part of: changelog
\* written, version file written, changelog staged, version file staged,
\* commit, tag, push of the branch, push of the tags, release created -- so
\* each happens at most once and in this order; a run that ends normally
\* with pull requests did all of them; only the two files are ever staged,
\* the commit holds both, the tag is named after the release identifier,
\* and the release of this run exists only with branch and tag pushed.
C7_PublishOrder ==
    /\ IsPrefix(SelectSeq(log, IsPublishOp), PublishOrder)
    /\ (pc = "done" /\ merged_pulls # <<>>) => SelectSeq(log, IsPublishOp) = PublishOrder
    /\ index \subseteq {CHANGELOG_MD, SETUP_PY}
    /\ Did("commit") =>
          /\ commits # <<>>
          /\ commits[Len(commits)] = [m |-> RELEASE, paths |-> {CHANGELOG_MD, SETUP_PY}]
          /\ changelog # start.changelog
    /\ Did("tag") => RELEASE \in tags
    /\ Did("create_release") =>
          /\ pushed = Len(commits)
          /\ RELEASE \in remote_tags
          /\ \E r \in releases : r.tag = RELEASE /\ r.name = RELEASE
                                 /\ r.message = release_changes_summary
    /\ (\E r \in releases : r.tag = RELEASE) => Did("create_release")

C7_Witness ==
    /\ pc = "done"
    /\ log = <<"get_repo", "get_pulls">> \o PublishOrder
    /\ runs = 2
    /\ Cardinality(releases) = 2

\* What the operations in the log leave behind, given the state at the
\* start of the run.
EffectsOfLog ==
    /\ changelog = IF Did("write_changelog")
                   THEN write_changelog(start.changelog, release_changes_summary)
                   ELSE start.changelog
    /\ setup_py = IF Did("update_version")
                  THEN update_version(start.setup_py, RELEASE)
                  ELSE start.setup_py
    /\ index = IF Did("commit") THEN {}
               ELSE start.index
                    \cup (IF Did("add_changelog") THEN {CHANGELOG_MD} ELSE {})
                    \cup (IF Did("add_setup_py") THEN {SETUP_PY} ELSE {})
    /\ Len(commits) = Len(start.commits) + (IF Did("commit") THEN 1 ELSE 0)
    /\ SubSeq(commits, 1, Len(start.commits)) = start.commits
    /\ tags = start.tags \cup (IF Did("tag") THEN {RELEASE} ELSE {})
    /\ pushed = IF Did("push_branch") THEN Len(commits) ELSE start.pushed
    /\ remote_tags = IF Did("push_tags") THEN start.remote_tags \cup tags
                     ELSE start.remote_tags

\* What the statement at a position records once it completed.
OpAt(pos) ==
    CASE pos = "get_repo" -> "get_repo"
      [] pos = "iter_pulls" -> "get_pulls"
      [] pos = "write_changelog" -> "write_changelog"
      [] pos = "update_version" -> "update_version"
      [] pos = "git_add_1" -> "add_changelog"
      [] pos = "git_add_2" -> "add_setup_py"
      [] pos = "git_commit" -> "commit"
      [] pos = "git_tag" -> "tag"
      [] pos = "git_push" -> "push_branch"
      [] pos = "git_push_tags" -> "push_tags"
      [] pos = "create_release" -> "create_release"
      [] OTHER -> "none"

\* C8: a run that raised stays ended: the operation that raised and those
\* after it never complete, no release of this run exists, and files, git
\* and remote hold exactly the effects of the operations that completed;
\* raising changes none of them, and after it nothing happens but a new
\* invocation, which finds them as they were left.
C8_NoRollbackNoRetry ==
    /\ [](pc = "failed" =>
            /\ raised \in RaisePoints
            /\ ~Did(OpAt(raised))
            /\ IsPrefix(SelectSeq(log, IsPublishOp), PublishOrder)
            /\ ~Did("create_release")
            /\ releases = start.releases
            /\ EffectsOfLog)
    /\ [][(pc' = "failed" /\ pc # "failed") => (Effects' = Effects /\ log' = log)]_vars
    /\ [][pc = "failed" => (pc' = "main_guard" /\ Effects' = Effects)]_vars

C8_Witness ==
    /\ pc = "failed"
    /\ raised = "git_push"
    /\ changelog # start.changelog
    /\ setup_py # start.setup_py
    /\ Len(commits) = Len(start.commits) + 1
    /\ RELEASE \in tags
    /\ RELEASE \notin remote_tags
    /\ pushed < Len(commits)
    /\ releases = start.releases

\* C9: an invocation without GITHUB_REPOSITORY never gets past the check
\* before main: it makes no API call and no git call and leaves every file,
\* the repository and the remote as they were.
C9_NoRepoAbortsBeforeWork ==
    (runs > 0 /\ GITHUB_REPO = NoRepo) =>
        /\ pc \in {"main_guard", "aborted"}
        /\ log = <<>>
        /\ Effects = start
        /\ remote = << <<>>, <<>> >>
        /\ merged_pulls = <<>>
        /\ raised = ""

C9_Witness ==
    /\ pc = "aborted"
    /\ GITHUB_REPO = NoRepo
    /\ runs = 2
    /\ start.releases # {}

====
